---- MODULE Spec2Model ----
(***************************************************************************)
(* Model of the ReKo update server (src/apps/backend/index.js): the        *)
(* in-memory version store, the update-check statistics, the version       *)
(* comparator and the HTTP handlers that read and change them.             *)
(*                                                                         *)
(* The last part models the fingerprint middleware of the website server   *)
(* (src/unnamed/part_000).                                                 *)
(*                                                                         *)
(* JavaScript values are modelled as follows.  A string that the code      *)
(* inspects character by character (a version string) is the sequence of   *)
(* its characters; a string the code only passes around (a URL, a note)    *)
(* is a one-element sequence holding it; undefined and null are two        *)
(* distinguished one-element sequences.  Each handler runs to completion   *)
(* on the single JavaScript thread (no handler awaits), so each handler    *)
(* is one action.                                                          *)
(***************************************************************************)
EXTENDS Integers, Sequences, FiniteSets, TLC

VARIABLES
    appVersions,    \* index.js:22  application name -> record, or Undefined
    updateStats,    \* index.js:55  totalChecks, checksToday, lastReset, clientVersions
    now,            \* the wall clock read by new Date()
    inflight,       \* check requests accepted by the server and not yet handled
    response,       \* the response written by the last handler
    log,            \* the logger.info lines written by the last handler
    lastOp,         \* history: the handler that ran last, with its request
    received,       \* history: number of check requests accepted into inflight
    checksHandled,  \* history: number of runs of the check handler
    resets,         \* history: number of times resetDailyStats took its branch
    mutations,      \* history: number of publish and webhook requests handled
    ranOn,          \* history: the dates on which resetDailyStats has run
    sinceDateChange,\* history: check handler runs since the date last changed
    reported,       \* history: reported version -> number of checks reporting it
    fingerprinted,  \* part_000:22  the last two requests past the fingerprint middleware
    cmpA, cmpB,     \* arguments of a compareVersions call
    cmpResult       \* its result, Pending before the call

vars == <<appVersions, updateStats, now, inflight, response, log, lastOp,
          received, checksHandled, resets, mutations, ranOn, sinceDateChange,
          reported, fingerprinted, cmpA, cmpB, cmpResult>>

histVars == <<ranOn, sinceDateChange, reported>>

serverVars == <<appVersions, updateStats, now, inflight, response, log, lastOp,
                received, checksHandled, resets, mutations, histVars>>

\* The variables of the other two programs: the comparator call and the
\* website server.
otherVars == <<cmpA, cmpB, cmpResult, fingerprinted>>

cmpVars == <<cmpA, cmpB, cmpResult>>

\* One more occurrence of x in the bag (a function from elements to counts).
bagAdd(bag, x) ==
    [y \in DOMAIN bag \cup {x} |->
        IF y \in DOMAIN bag THEN bag[y] + (IF y = x THEN 1 ELSE 0) ELSE 1]

-----------------------------------------------------------------------------
(* Bounds of the model *)

MaxLen == 3          \* longest generated version string
MaxRequests == 3     \* check, publish and webhook requests that change the state
MaxMutations == 1    \* of these, publish and webhook requests
MaxInflight == 2     \* check requests in flight at once
MaxNow == 2          \* last clock reading
MaxVaried == 2       \* parts in which a website request differs from BaseRequest

-----------------------------------------------------------------------------
(* JavaScript values *)

Undefined == <<"undefined">>
Null == <<"null">>

\* NaN, the result of parseInt on a segment with no leading digit.  parseInt
\* is applied to segments without a sign, so its numeric results are >= 0.
NaN == -1

\* The result slot of a call that has not returned yet.
Pending == {}

Max(a, b) == IF a >= b THEN a ELSE b

-----------------------------------------------------------------------------
(* compareVersions, index.js:73-88 *)

IsSeparator(c) == c \in {".", "-"}

IsDigit(c) == c \in {"0", "1", "2", "3", "4", "5", "6", "7", "8", "9"}

DigitValue(c) ==
    CASE c = "0" -> 0 [] c = "1" -> 1 [] c = "2" -> 2 [] c = "3" -> 3
      [] c = "4" -> 4 [] c = "5" -> 5 [] c = "6" -> 6 [] c = "7" -> 7
      [] c = "8" -> 8 [] c = "9" -> 9

\* Variant of split that splits on '.' only.
RECURSIVE splitOnDots(_)
splitOnDots(s) ==
    LET seps == {i \in 1..Len(s) : s[i] = "."}
    IN  IF seps = {} THEN <<s>>
        ELSE LET i == CHOOSE k \in seps : \A j \in seps : k <= j
             IN  <<SubSeq(s, 1, i - 1)>> \o splitOnDots(SubSeq(s, i + 1, Len(s)))

\* String.prototype.split(/[.-]/): the segments between separators, empty
\* segments kept; a string without separator is its own single segment.
RECURSIVE split(_)
split(s) ==
    LET seps == {i \in 1..Len(s) : IsSeparator(s[i])}
    IN  IF seps = {} THEN <<s>>
        ELSE LET i == CHOOSE k \in seps : \A j \in seps : k <= j
             IN  <<SubSeq(s, 1, i - 1)>> \o split(SubSeq(s, i + 1, Len(s)))

\* Number of leading decimal digits of x.
RECURSIVE leadingDigits(_)
leadingDigits(x) ==
    IF x = <<>> \/ ~IsDigit(Head(x)) THEN 0 ELSE 1 + leadingDigits(Tail(x))

\* Value of a sequence of decimal digits.
RECURSIVE decimalValue(_)
decimalValue(ds) ==
    IF ds = <<>> THEN 0
    ELSE 10 * decimalValue(SubSeq(ds, 1, Len(ds) - 1)) + DigitValue(ds[Len(ds)])

\* parseInt(x) without radix, for x free of white space, sign and 0x prefix:
\* the value of the longest leading run of digits, NaN when there is none.
parseInt(x) ==
    LET n == leadingDigits(x)
    IN  IF n = 0 THEN NaN ELSE decimalValue(SubSeq(x, 1, n))

\* v || 0 for a number v: NaN and 0 are falsy.
orZero(v) == IF v = NaN \/ v = 0 THEN 0 ELSE v

\* version.split(/[.-]/).map((x) => parseInt(x) || 0)
versionParts(version) ==
    LET segs == split(version)
    IN  [i \in 1..Len(segs) |-> orZero(parseInt(segs[i]))]

\* parts[i] || 0: reading past the end of the array gives undefined.
partOrZero(parts, i) == IF i \in DOMAIN parts THEN orZero(parts[i]) ELSE 0

\* Variant of the loop that tests v1part <= v2part first.
RECURSIVE compareFromNonStrict(_, _, _, _)
compareFromNonStrict(v1parts, v2parts, i, maxLength) ==
    IF i > maxLength THEN 0
    ELSE LET v1part == IF i \in DOMAIN v1parts THEN v1parts[i] ELSE 0
             v2part == IF i \in DOMAIN v2parts THEN v2parts[i] ELSE 0
         IN  IF v1part <= v2part THEN -1
             ELSE IF v1part > v2part THEN 1
             ELSE compareFromNonStrict(v1parts, v2parts, i + 1, maxLength)

\* The for loop of compareVersions, from index i (1-based here).
RECURSIVE compareFrom(_, _, _, _)
compareFrom(v1parts, v2parts, i, maxLength) ==
    IF i > maxLength THEN 0
    ELSE LET v1part == partOrZero(v1parts, i)
             v2part == partOrZero(v2parts, i)
         IN  IF v1part < v2part THEN -1
             ELSE IF v1part > v2part THEN 1
             ELSE compareFrom(v1parts, v2parts, i + 1, maxLength)

compareVersions(version1, version2) ==
    LET v1parts == versionParts(version1)
        v2parts == versionParts(version2)
        maxLength == Max(Len(v1parts), Len(v2parts))
    IN  compareFrom(v1parts, v2parts, 1, maxLength)

-----------------------------------------------------------------------------
(* Version strings *)

V100 == <<"1", ".", "0", ".", "0">>
V120 == <<"1", ".", "2", ".", "0">>
V130beta1 == <<"1", ".", "3", ".", "0", "-", "b", "e", "t", "a", ".", "1">>
V12 == <<"1", ".", "2">>
V1100 == <<"1", ".", "1", "0", ".", "0">>
V190 == <<"1", ".", "9", ".", "0">>
V200 == <<"2", ".", "0", ".", "0">>
V199 == <<"1", ".", "9", ".", "9">>
V100beta == <<"1", ".", "0", ".", "0", "-", "b", "e", "t", "a">>
V090 == <<"0", ".", "9", ".", "0">>

Alphabet == {"0", "1", ".", "-", "b"}

\* All strings over Alphabet of length at most n.
RECURSIVE StringsUpTo(_)
StringsUpTo(n) ==
    IF n = 0 THEN {<<>>}
    ELSE LET shorter == StringsUpTo(n - 1)
         IN  shorter \cup {Append(s, c) : s \in shorter, c \in Alphabet}

ExampleVersions ==
    {V100, V120, V130beta1, V12, V1100, V190, V200, V199, V100beta, V090}

VersionStrings == StringsUpTo(MaxLen) \cup ExampleVersions

-----------------------------------------------------------------------------
(* JavaScript objects and Maps *)

\* obj[key]: undefined when the object has no such property.
prop(obj, key) == IF key \in DOMAIN obj THEN obj[key] ELSE Undefined

\* Truthiness of a string, undefined or null: the empty string is falsy.
truthy(v) == v # Undefined /\ v # Null /\ v # <<>>

\* a || b
orElse(a, b) == IF truthy(a) THEN a ELSE b

\* A Map is the sequence of its [key, value] entries in insertion order.
mapHas(m, k) == \E i \in DOMAIN m : m[i].key = k

mapGet(m, k) ==
    IF mapHas(m, k) THEN m[CHOOSE i \in DOMAIN m : m[i].key = k].value
    ELSE Undefined

\* Map.prototype.set: an existing key keeps its position.
mapSet(m, k, v) ==
    IF mapHas(m, k)
    THEN [i \in DOMAIN m |-> IF m[i].key = k THEN [key |-> k, value |-> v] ELSE m[i]]
    ELSE Append(m, [key |-> k, value |-> v])

-----------------------------------------------------------------------------
(* The clock *)

\* new Date().toDateString(): the calendar day of a clock reading, with two
\* clock readings in each day.
toDateString(t) == t \div 2

\* new Date().toISOString(): the clock reading itself, as a string.
toISOString(t) == <<ToString(t)>>

-----------------------------------------------------------------------------
(* Server state after construction, index.js:22-60 *)

InitialAppVersions ==
    [a \in {"myapp", "myapp-beta"} |->
        IF a = "myapp"
        THEN [currentVersion |-> V100,
              latestVersion  |-> V120,
              releaseDate    |-> <<"2024-12-01T10:00:00Z">>,
              downloadUrl    |-> <<"https://releases.myapp.com/v1.2.0">>,
              releaseNotes   |-> <<"Added dark mode support",
                                   "Fixed memory leak in background sync",
                                   "Improved performance by 30%",
                                   "Security updates">>,
              critical       |-> FALSE,
              minimumVersion |-> V100,
              changelog      |-> <<"https://myapp.com/changelog/v1.2.0">>]
        ELSE [currentVersion |-> V120,
              latestVersion  |-> V130beta1,
              releaseDate    |-> <<"2024-12-15T14:30:00Z">>,
              downloadUrl    |-> <<"https://releases.myapp.com/beta/v1.3.0-beta.1">>,
              releaseNotes   |-> <<"New experimental AI features",
                                   "Redesigned user interface",
                                   "Performance improvements">>,
              critical       |-> FALSE,
              minimumVersion |-> V120,
              changelog      |-> <<"https://myapp.com/changelog/v1.3.0-beta.1">>]]

InitialUpdateStats ==
    [totalChecks    |-> 0,
     checksToday    |-> 0,
     lastReset      |-> toDateString(0),
     clientVersions |-> <<>>]

InitServer ==
    /\ appVersions = InitialAppVersions
    /\ updateStats = InitialUpdateStats
    /\ now = 0
    /\ inflight = <<>>
    /\ response = [status |-> 0]
    /\ log = {}
    /\ lastOp = [op |-> "none"]
    /\ received = 0
    /\ checksHandled = 0
    /\ resets = 0
    /\ mutations = 0
    /\ ranOn = {}
    /\ sinceDateChange = 0
    /\ reported = <<>>

-----------------------------------------------------------------------------
(* resetDailyStats, index.js:63-70 *)

\* Variant that resets on every call, whatever the date.
resetDailyStatsAlways(stats, t) ==
    [stats EXCEPT !.checksToday = 0, !.lastReset = toDateString(t)]

\* Variant that also clears the per-version counts on a reset.
resetDailyStatsClearsVersions(stats, t) ==
    IF stats.lastReset # toDateString(t)
    THEN [stats EXCEPT !.checksToday = 0, !.lastReset = toDateString(t),
                       !.clientVersions = <<>>]
    ELSE stats

\* Variant that also resets totalChecks on a reset.
resetDailyStatsAllCounters(stats, t) ==
    IF stats.lastReset # toDateString(t)
    THEN [stats EXCEPT !.checksToday = 0, !.totalChecks = 0,
                       !.lastReset = toDateString(t)]
    ELSE stats

\* Variant that resets the daily counter without recording the date.
resetDailyStatsKeepsDate(stats, t) ==
    IF stats.lastReset # toDateString(t)
    THEN [stats EXCEPT !.checksToday = 0]
    ELSE stats

\* Whether resetDailyStats takes its branch at clock reading t.
resetDue(stats, t) == stats.lastReset # toDateString(t)

\* The statistics after resetDailyStats() at clock reading t.
resetDailyStats(stats, t) ==
    LET today == toDateString(t)
    IN  IF stats.lastReset # today
        THEN [stats EXCEPT !.checksToday = 0, !.lastReset = today]
        ELSE stats

-----------------------------------------------------------------------------
(* GET /api/updates/check, index.js:91-157 *)

\* Variant without the guard of line 105: an absent version is counted too.
trackStatisticsUnguarded(stats, currentVersion) ==
    LET counted == [stats EXCEPT !.totalChecks = @ + 1, !.checksToday = @ + 1]
        count == IF mapHas(counted.clientVersions, currentVersion)
                 THEN mapGet(counted.clientVersions, currentVersion)
                 ELSE 0
    IN  [counted EXCEPT !.clientVersions = mapSet(@, currentVersion, count + 1)]

\* Lines 101-108: the counters after one check reporting currentVersion.
trackStatistics(stats, currentVersion) ==
    LET counted == [stats EXCEPT !.totalChecks = @ + 1, !.checksToday = @ + 1]
    IN  IF truthy(currentVersion)
        THEN LET count == IF mapHas(counted.clientVersions, currentVersion)
                          THEN mapGet(counted.clientVersions, currentVersion)
                          ELSE 0
             IN  [counted EXCEPT !.clientVersions =
                                    mapSet(@, currentVersion, count + 1)]
        ELSE counted

\* Variant with <= in place of <.
updateAvailableForOrEqual(currentVersion, appInfo) ==
    compareVersions(currentVersion, appInfo.latestVersion) <= 0

\* Lines 129-130.
updateAvailableFor(currentVersion, appInfo) ==
    compareVersions(currentVersion, appInfo.latestVersion) < 0

\* Variant that ignores the record's critical flag.
isCriticalForAnyRecord(currentVersion, appInfo) ==
    compareVersions(currentVersion, appInfo.minimumVersion) < 0

\* Lines 131-133.
isCriticalFor(currentVersion, appInfo) ==
    /\ appInfo.critical
    /\ compareVersions(currentVersion, appInfo.minimumVersion) < 0

\* Variant that always passes the record's value on.
whenAvailableAlways(updateAvailable, value) == value

\* Lines 141-143: updateAvailable ? value : null
whenAvailable(updateAvailable, value) == IF updateAvailable THEN value ELSE Null

\* compareVersions throws a TypeError when an argument is not a string.
compareThrows(currentVersion, appInfo) ==
    \/ prop(appInfo, "latestVersion") \in {Undefined, Null}
    \/ /\ appInfo.critical
       /\ prop(appInfo, "minimumVersion") \in {Undefined, Null}

\* Lines 115-120.
notFoundResponse(store) ==
    [status |-> 404,
     error |-> "Application not found",
     availableApps |-> DOMAIN store]

\* Lines 122-127.
missingVersionResponse ==
    [status |-> 400,
     error |-> "Current version is required",
     example |-> "/api/updates/check?app=myapp&version=1.0.0"]

\* Lines 129-156: the decision, or the answer of the error middleware
\* (lines 306-315) when compareVersions throws.
decisionResponse(appInfo, query, t) ==
    LET currentVersion == query.version
    IN  IF compareThrows(currentVersion, appInfo)
        THEN [status |-> 500, error |-> "Internal server error"]
        ELSE LET updateAvailable == updateAvailableFor(currentVersion, appInfo)
                 isCritical == isCriticalFor(currentVersion, appInfo)
             IN  [status          |-> 200,
                  updateAvailable |-> updateAvailable,
                  critical        |-> isCritical,
                  currentVersion  |-> currentVersion,
                  latestVersion   |-> appInfo.latestVersion,
                  releaseDate     |-> prop(appInfo, "releaseDate"),
                  downloadUrl     |-> whenAvailable(updateAvailable,
                                                    prop(appInfo, "downloadUrl")),
                  releaseNotes    |-> whenAvailable(updateAvailable,
                                                    prop(appInfo, "releaseNotes")),
                  changelog       |-> whenAvailable(updateAvailable,
                                                    prop(appInfo, "changelog")),
                  minimumVersion  |-> appInfo.minimumVersion,
                  checkedAt       |-> toISOString(t),
                  platform        |-> orElse(query.platform, <<"unknown">>),
                  arch            |-> orElse(query.arch, <<"unknown">>)]

\* Variant that validates the version before it looks the application up.
checkResponseVersionFirst(store, query, t) ==
    LET appName == IF query.app = Undefined THEN "myapp" ELSE query.app[1]
    IN  IF ~truthy(query.version) THEN missingVersionResponse
        ELSE IF appName \notin DOMAIN store THEN notFoundResponse(store)
        ELSE decisionResponse(store[appName], query, t)

\* Lines 114-156: the response of the check handler.
checkResponse(store, query, t) ==
    LET appName == IF query.app = Undefined THEN "myapp" ELSE query.app[1]
    IN  IF appName \notin DOMAIN store THEN notFoundResponse(store)
        ELSE IF ~truthy(query.version) THEN missingVersionResponse
        ELSE decisionResponse(store[appName], query, t)

\* The log lines of the check handler.
checkLog(stats, resp, t) ==
    {"Update check"}
      \cup (IF resetDue(stats, t) THEN {"Daily update check stats reset"} ELSE {})
      \cup (IF resp.status = 200 /\ resp.updateAvailable
            THEN {"Update available"} ELSE {})

\* The whole handler, for one request that passed the rate limiter.
HandleCheck(query) ==
    /\ checksHandled + mutations < MaxRequests
    /\ LET resp == checkResponse(appVersions, query, now)
       IN  /\ updateStats' =
                 trackStatistics(resetDailyStats(updateStats, now), query.version)
           /\ response' = resp
           /\ log' = checkLog(updateStats, resp, now)
    /\ lastOp' = [op |-> "check", query |-> query]
    /\ checksHandled' = checksHandled + 1
    /\ resets' = resets + (IF resetDue(updateStats, now) THEN 1 ELSE 0)
    /\ ranOn' = ranOn \cup {toDateString(now)}
    /\ sinceDateChange' = sinceDateChange + 1
    /\ reported' = IF truthy(query.version)
                   THEN bagAdd(reported, query.version)
                   ELSE reported
    /\ UNCHANGED <<appVersions, now, mutations>>

\* Query strings of check requests.
CheckQueries ==
    {[app |-> Undefined, version |-> v, platform |-> Undefined, arch |-> Undefined] :
        v \in {Undefined, V100, V12, V200}}
    \cup
    {[app |-> <<"newapp">>, version |-> v, platform |-> Undefined,
      arch |-> Undefined] : v \in {Undefined, V100}}
    \cup
    {[app |-> <<"myapp-beta">>, version |-> V100, platform |-> <<"linux">>,
      arch |-> <<"x64">>],
     [app |-> <<"myapp">>, version |-> <<>>, platform |-> Undefined,
      arch |-> Undefined]}

Check ==
    \E query \in CheckQueries :
        /\ HandleCheck(query)
        /\ UNCHANGED <<inflight, received>>

\* updateCheckLimiter, index.js:15-19: a request over the limit of its
\* window is answered 429 and never reaches the handler.  The limiter's
\* window state lives in the library; whether it rejects is not determined
\* by the server state modelled here.
CheckRateLimited ==
    /\ response' = [status |-> 429, error |-> "Too many update check requests"]
    /\ log' = {}
    /\ lastOp' = [op |-> "rate-limited"]
    /\ UNCHANGED <<appVersions, updateStats, now, inflight, received,
                   checksHandled, resets, mutations, histVars>>

-----------------------------------------------------------------------------
(* GET /api/version/:app, index.js:160-180 *)

versionResponse(store, appName) ==
    IF appName \notin DOMAIN store
    THEN [status |-> 404,
          error |-> "Application not found",
          availableApps |-> DOMAIN store]
    ELSE LET appInfo == store[appName]
         IN  [status         |-> 200,
              app            |-> appName,
              version        |-> prop(appInfo, "latestVersion"),
              releaseDate    |-> prop(appInfo, "releaseDate"),
              downloadUrl    |-> prop(appInfo, "downloadUrl"),
              releaseNotes   |-> prop(appInfo, "releaseNotes"),
              minimumVersion |-> prop(appInfo, "minimumVersion"),
              critical       |-> prop(appInfo, "critical")]

VersionInfo ==
    \E appName \in {"myapp", "nosuchapp"} :
        /\ response' = versionResponse(appVersions, appName)
        /\ log' = {}
        /\ lastOp' = [op |-> "version", app |-> appName]
        /\ UNCHANGED <<appVersions, updateStats, now, inflight, received,
                       checksHandled, resets, mutations, histVars>>

-----------------------------------------------------------------------------
(* POST /api/admin/publish, index.js:183-228 *)

\* Lines 203-218: the record stored for app by a publish of body.
publishedRecord(store, app, body, t) ==
    LET old == IF app \in DOMAIN store THEN store[app] ELSE <<>>
        new == [latestVersion  |-> body.version,
                releaseDate    |-> toISOString(t),
                downloadUrl    |-> orElse(body.downloadUrl, prop(old, "downloadUrl")),
                releaseNotes   |-> orElse(body.releaseNotes,
                                          <<"Updated to version " \o ToString(body.version)>>),
                critical       |-> body.critical,
                minimumVersion |-> orElse(body.minimumVersion,
                                          orElse(prop(old, "minimumVersion"),
                                                 body.version))]
    IN  [f \in DOMAIN old \cup DOMAIN new |->
            IF f \in DOMAIN new THEN new[f] ELSE old[f]]

\* The store with rec stored under app.
storeSet(store, app, rec) ==
    [a \in DOMAIN store \cup {app} |-> IF a = app THEN rec ELSE store[a]]

\* Request bodies of publish requests; app and critical carry the defaults
\* of the destructuring at lines 185 and 189.
PublishBodies ==
    {[app |-> "myapp", version |-> V200, downloadUrl |-> Undefined,
      releaseNotes |-> Undefined, critical |-> TRUE, minimumVersion |-> V120],
     [app |-> "newapp", version |-> V200, downloadUrl |-> Undefined,
      releaseNotes |-> <<"First release">>, critical |-> TRUE,
      minimumVersion |-> V120],
     [app |-> "myapp", version |-> Undefined, downloadUrl |-> Undefined,
      releaseNotes |-> Undefined, critical |-> FALSE, minimumVersion |-> Undefined]}

Publish ==
    \E body \in PublishBodies, authorized \in BOOLEAN :
        /\ IF ~authorized
           THEN /\ response' = [status |-> 401, error |-> "Unauthorized"]
                /\ log' = {}
                /\ UNCHANGED <<appVersions, mutations>>
           ELSE IF ~truthy(body.version)
           THEN /\ response' = [status |-> 400, error |-> "Version is required"]
                /\ log' = {}
                /\ UNCHANGED <<appVersions, mutations>>
           ELSE /\ mutations < MaxMutations
                /\ checksHandled + mutations < MaxRequests
                /\ appVersions' =
                      storeSet(appVersions, body.app,
                               publishedRecord(appVersions, body.app, body, now))
                /\ response' =
                      [status          |-> 200,
                       success         |-> TRUE,
                       publishedAt     |-> toISOString(now),
                       previousVersion |->
                           IF body.app \in DOMAIN appVersions
                           THEN prop(appVersions[body.app], "latestVersion")
                           ELSE Undefined]
                /\ log' = {"New version published"}
                /\ mutations' = mutations + 1
        /\ lastOp' = [op |-> "publish", body |-> body, authorized |-> authorized]
        /\ UNCHANGED <<updateStats, now, inflight, received, checksHandled, resets,
                       histVars>>

-----------------------------------------------------------------------------
(* POST /api/webhook/release, index.js:276-303 *)

\* Lines 288-291: the record after the webhook's four assignments.
webhookRecord(old, body, t) ==
    LET new == [latestVersion |-> body.version,
                releaseDate   |-> toISOString(t),
                downloadUrl   |-> body.download_url,
                releaseNotes  |-> orElse(body.release_notes,
                                         <<"Release " \o ToString(body.version)>>)]
    IN  [f \in DOMAIN old \cup DOMAIN new |->
            IF f \in DOMAIN new THEN new[f] ELSE old[f]]

\* Variant that stores a record for an application the store does not have.
webhookStoreUpsert(store, appName, body, t) ==
    IF appName \in DOMAIN store
    THEN [store EXCEPT ![appName] = webhookRecord(@, body, t)]
    ELSE storeSet(store, appName, webhookRecord(<<>>, body, t))

\* Lines 287-302: the store after the webhook handler, past its secret check.
webhookStore(store, appName, body, t) ==
    IF appName \in DOMAIN store
    THEN [store EXCEPT ![appName] = webhookRecord(@, body, t)]
    ELSE store

\* Request bodies of webhook requests; repository is repository?.name.
WebhookBodies ==
    {[repository |-> Undefined, version |-> V090,
      download_url |-> <<"https://releases.myapp.com/v0.9.0">>,
      release_notes |-> Undefined],
     [repository |-> Undefined, version |-> Undefined,
      download_url |-> Undefined, release_notes |-> Undefined],
     [repository |-> <<"nosuchapp">>, version |-> V200,
      download_url |-> Undefined, release_notes |-> Undefined]}

Webhook ==
    \E body \in WebhookBodies, authorized \in BOOLEAN :
        LET appName == IF truthy(body.repository) THEN body.repository[1] ELSE "myapp"
        IN  /\ IF ~authorized
               THEN /\ response' = [status |-> 401, error |-> "Invalid webhook secret"]
                    /\ log' = {}
                    /\ UNCHANGED <<appVersions, mutations>>
               ELSE IF appName \in DOMAIN appVersions
               THEN /\ mutations < MaxMutations
                    /\ checksHandled + mutations < MaxRequests
                    /\ appVersions' = webhookStore(appVersions, appName, body, now)
                    /\ response' = [status |-> 200, success |-> TRUE, app |-> appName]
                    /\ log' = {"Webhook release update"}
                    /\ mutations' = mutations + 1
               ELSE /\ appVersions' = webhookStore(appVersions, appName, body, now)
                    /\ response' = [status |-> 404, error |-> "App not found"]
                    /\ log' = {}
                    /\ UNCHANGED mutations
            /\ lastOp' = [op |-> "webhook", body |-> body, authorized |-> authorized]
            /\ UNCHANGED <<updateStats, now, inflight, received, checksHandled, resets,
                           histVars>>

-----------------------------------------------------------------------------
(* GET /api/admin/stats, index.js:231-251 *)

\* Insert entry e into a sequence sorted by count descending, after the
\* entries that do not come after it (Array.prototype.sort is stable).
RECURSIVE insertByCount(_, _)
insertByCount(sorted, e) ==
    IF sorted = <<>> THEN <<e>>
    ELSE IF Head(sorted).count < e.count THEN <<e>> \o sorted
    ELSE <<Head(sorted)>> \o insertByCount(Tail(sorted), e)

RECURSIVE sortByCount(_)
sortByCount(entries) ==
    IF entries = <<>> THEN <<>>
    ELSE insertByCount(sortByCount(SubSeq(entries, 1, Len(entries) - 1)),
                       entries[Len(entries)])

\* Variant without the sort of line 241: the entries in Map order.
versionDistributionUnsorted(stats) ==
    [i \in DOMAIN stats.clientVersions |->
        [version |-> stats.clientVersions[i].key,
         count   |-> stats.clientVersions[i].value]]

\* Lines 239-241.
versionDistribution(stats) ==
    sortByCount([i \in DOMAIN stats.clientVersions |->
                    [version |-> stats.clientVersions[i].key,
                     count   |-> stats.clientVersions[i].value]])

Stats ==
    \E authorized \in BOOLEAN :
        /\ IF ~authorized
           THEN /\ response' = [status |-> 401, error |-> "Unauthorized"]
                /\ log' = {}
                /\ UNCHANGED <<updateStats, resets, ranOn>>
           ELSE LET stats == resetDailyStats(updateStats, now)
                IN  /\ updateStats' = stats
                    /\ ranOn' = ranOn \cup {toDateString(now)}
                    /\ response' =
                          [status              |-> 200,
                           totalChecks         |-> stats.totalChecks,
                           checksToday         |-> stats.checksToday,
                           lastReset           |-> stats.lastReset,
                           versionDistribution |-> versionDistribution(stats),
                           availableApps       |-> DOMAIN appVersions]
                    /\ log' = IF resetDue(updateStats, now)
                              THEN {"Daily update check stats reset"} ELSE {}
                    /\ resets' = resets + (IF resetDue(updateStats, now) THEN 1 ELSE 0)
        /\ lastOp' = [op |-> "stats", authorized |-> authorized]
        /\ UNCHANGED <<appVersions, now, inflight, received, checksHandled, mutations,
                       sinceDateChange, reported>>

-----------------------------------------------------------------------------
(* GET /health and GET /api/apps, index.js:254-273 *)

Health ==
    /\ response' = [status |-> 200, health |-> "healthy",
                    timestamp |-> toISOString(now), version |-> "1.0.0"]
    /\ log' = {}
    /\ lastOp' = [op |-> "health"]
    /\ UNCHANGED <<appVersions, updateStats, now, inflight, received,
                   checksHandled, resets, mutations, histVars>>

ListApps ==
    /\ response' =
          [status |-> 200,
           apps |-> [a \in DOMAIN appVersions |->
                        [name          |-> a,
                         latestVersion |-> prop(appVersions[a], "latestVersion"),
                         releaseDate   |-> prop(appVersions[a], "releaseDate"),
                         critical      |-> prop(appVersions[a], "critical")]]]
    /\ log' = {}
    /\ lastOp' = [op |-> "apps"]
    /\ UNCHANGED <<appVersions, updateStats, now, inflight, received,
                   checksHandled, resets, mutations, histVars>>

-----------------------------------------------------------------------------
(* The clock advances *)

Tick ==
    /\ now < MaxNow
    /\ now' = now + 1
    /\ sinceDateChange' = IF toDateString(now + 1) # toDateString(now)
                          THEN 0 ELSE sinceDateChange
    /\ UNCHANGED <<appVersions, updateStats, inflight, response, log, lastOp,
                   received, checksHandled, resets, mutations, ranOn, reported>>

-----------------------------------------------------------------------------
(* Specification of compareVersions as a function of its two arguments *)

InitCmp ==
    /\ InitServer
    /\ cmpA \in VersionStrings
    /\ cmpB \in VersionStrings
    /\ cmpResult = Pending
    /\ fingerprinted = <<>>

Compare ==
    /\ cmpResult = Pending
    /\ cmpResult' = {compareVersions(cmpA, cmpB)}
    /\ UNCHANGED <<cmpA, cmpB, fingerprinted>>
    /\ UNCHANGED serverVars

NextCmp == Compare

SpecCmp == InitCmp /\ [][NextCmp]_vars

-----------------------------------------------------------------------------
(* Check requests handled concurrently.  A request that passed the rate    *)
(* limiter waits in inflight until the event loop runs the handler for it; *)
(* the handler does not await, so it runs to completion before any other   *)
(* handler starts.  Requests in flight are handled in any order.           *)

ConcurrentQueries ==
    {q \in CheckQueries : q.version \in {Undefined, V100} /\ q.platform = Undefined}

Receive ==
    \E query \in ConcurrentQueries :
        /\ Len(inflight) < MaxInflight
        /\ received < MaxRequests
        /\ inflight' = Append(inflight, query)
        /\ received' = received + 1
        /\ UNCHANGED <<appVersions, updateStats, now, response, log, lastOp,
                       checksHandled, resets, mutations, histVars>>

Dispatch ==
    \E i \in DOMAIN inflight :
        /\ HandleCheck(inflight[i])
        /\ inflight' = SubSeq(inflight, 1, i - 1) \o
                       SubSeq(inflight, i + 1, Len(inflight))
        /\ UNCHANGED received

NextConcurrent ==
    \/ (Receive /\ UNCHANGED otherVars)
    \/ (Dispatch /\ UNCHANGED otherVars)
    \/ (Stats /\ UNCHANGED otherVars)
    \/ (Tick /\ UNCHANGED otherVars)

-----------------------------------------------------------------------------
(* Specification of the server *)

Init ==
    /\ InitServer
    /\ cmpA = <<>>
    /\ cmpB = <<>>
    /\ cmpResult = Pending
    /\ fingerprinted = <<>>

Next ==
    \/ (Check /\ UNCHANGED otherVars)
    \/ (CheckRateLimited /\ UNCHANGED otherVars)
    \/ (VersionInfo /\ UNCHANGED otherVars)
    \/ (Publish /\ UNCHANGED otherVars)
    \/ (Webhook /\ UNCHANGED otherVars)
    \/ (Stats /\ UNCHANGED otherVars)
    \/ (Health /\ UNCHANGED otherVars)
    \/ (ListApps /\ UNCHANGED otherVars)
    \/ (Tick /\ UNCHANGED otherVars)

Spec == Init /\ [][Next]_vars

SpecConcurrent == Init /\ [][NextConcurrent]_vars

-----------------------------------------------------------------------------
(* The fingerprint middleware of the website server,                       *)
(* src/unnamed/part_000:22-41.  A header the code splits is the sequence   *)
(* of its comma-separated entries; the other strings are only joined, and  *)
(* are one-element sequences, the empty string being the empty sequence.   *)

\* header?.split(",")[0]
firstEntry(header) ==
    IF header = Undefined THEN Undefined
    ELSE IF header[1] = "" THEN <<>>
    ELSE <<header[1]>>

\* Variant that also hashes the URL of the request.
fingerprintComponentsWithUrl(req) ==
    <<req.ip,
      req.headers["user-agent"],
      req.headers["accept-language"],
      req.headers["accept-encoding"],
      firstEntry(req.headers["x-forwarded-for"]),
      req.headers["sec-ch-ua-platform"],
      req.url>>

\* Lines 23-30: the array before the filter.
fingerprintComponents(req) ==
    <<req.ip,
      req.headers["user-agent"],
      req.headers["accept-language"],
      req.headers["accept-encoding"],
      firstEntry(req.headers["x-forwarded-for"]),
      req.headers["sec-ch-ua-platform"]>>

\* Array.prototype.filter(Boolean): the truthy elements, in order.
filterBoolean(array) == SelectSeq(array, truthy)

\* Array.prototype.join(separator)
RECURSIVE join(_, _)
join(array, separator) ==
    IF array = <<>> THEN <<>>
    ELSE IF Len(array) = 1 THEN array[1]
    ELSE array[1] \o <<separator>> \o join(Tail(array), separator)

\* crypto.createHash("sha256").update(data).digest("hex"), taken to be free
\* of collisions: the digest is named by the data it was computed from.
sha256Hex(data) == [algorithm |-> "sha256", of |-> data]

\* Lines 23-36.
fingerprint(req) == sha256Hex(join(filterBoolean(fingerprintComponents(req)), "|"))

\* The headers of a request.
Headers(userAgent, acceptLanguage, acceptEncoding, forwardedFor, platform, cookie) ==
    [h \in {"user-agent", "accept-language", "accept-encoding",
            "x-forwarded-for", "sec-ch-ua-platform", "cookie"} |->
        CASE h = "user-agent"         -> userAgent
          [] h = "accept-language"    -> acceptLanguage
          [] h = "accept-encoding"    -> acceptEncoding
          [] h = "x-forwarded-for"    -> forwardedFor
          [] h = "sec-ch-ua-platform" -> platform
          [] h = "cookie"             -> cookie]

\* Method, URL and cookie of the requests.
RequestLines ==
    {[method |-> <<"GET">>, url |-> <<"/">>, cookie |-> Undefined],
     [method |-> <<"POST">>, url |-> <<"/admin">>, cookie |-> Undefined],
     [method |-> <<"GET">>, url |-> <<"/">>, cookie |-> <<"sid=1">>]}

\* A request of a browser behind a proxy.
BaseRequest ==
    [method  |-> <<"GET">>,
     url     |-> <<"/">>,
     ip      |-> <<"10.0.0.1">>,
     headers |-> Headers(<<"Mozilla">>, <<"en">>, <<"gzip">>, <<"1.1.1.1">>,
                         <<"Linux">>, Undefined)]

RequestsOfAnyKind ==
    {[method  |-> line.method,
      url     |-> line.url,
      ip      |-> ip,
      headers |-> Headers(userAgent, acceptLanguage, acceptEncoding,
                          forwardedFor, platform, line.cookie)] :
        line \in RequestLines,
        ip \in {<<"10.0.0.1">>, <<"10.0.0.2">>},
        userAgent \in {Undefined, <<>>, <<"Mozilla">>},
        acceptLanguage \in {Undefined, <<"en">>},
        acceptEncoding \in {Undefined, <<"gzip">>},
        forwardedFor \in {Undefined, <<"1.1.1.1">>, <<"1.1.1.1", "2.2.2.2">>},
        platform \in {Undefined, <<"Linux">>}}

\* The number of parts (request line and cookie, address, five headers) in
\* which a request differs from BaseRequest.
Varied(req) ==
    (IF <<req.method, req.url, req.headers["cookie"]>>
          # <<BaseRequest.method, BaseRequest.url, BaseRequest.headers["cookie"]>>
     THEN 1 ELSE 0)
    + (IF req.ip # BaseRequest.ip THEN 1 ELSE 0)
    + Cardinality({h \in {"user-agent", "accept-language", "accept-encoding",
                          "x-forwarded-for", "sec-ch-ua-platform"} :
                      req.headers[h] # BaseRequest.headers[h]})

\* The requests the website server receives: those that differ from
\* BaseRequest in at most MaxVaried parts.
FingerprintRequests == {req \in RequestsOfAnyKind : Varied(req) <= MaxVaried}

\* Lines 22-41: the middleware for one request.  It writes the identifier
\* to the request and to the locals of its response, and to nothing else.
Fingerprint ==
    \E req \in FingerprintRequests :
        LET id == fingerprint(req)
            done == [req      |-> req,
                     uniqueId |-> id,
                     locals   |-> [uniqueId |-> id]]
        IN  /\ fingerprinted' = IF Len(fingerprinted) = 2
                                THEN <<fingerprinted[2], done>>
                                ELSE Append(fingerprinted, done)
            /\ UNCHANGED serverVars
            /\ UNCHANGED cmpVars

NextFingerprint == Fingerprint

SpecFingerprint == Init /\ [][NextFingerprint]_vars

-----------------------------------------------------------------------------
(* Vocabulary of the properties *)

\* The application a check query names, with the default of line 95.
QueryApp(query) == IF query.app = Undefined THEN "myapp" ELSE query.app[1]

\* The last handler was the check handler and it answered with a decision.
Decided == lastOp.op = "check" /\ response.status = 200

\* The record the last check was decided against.
DecidedRecord == appVersions[QueryApp(lastOp.query)]

\* This step is one run of the check handler.
CheckStep == checksHandled' = checksHandled + 1

\* This step is one run of the stats handler past its key check.
StatsStep ==
    /\ lastOp'.op = "stats"
    /\ lastOp'.authorized
    /\ now' = now
    /\ checksHandled' = checksHandled

ResetLogged == "Daily update check stats reset" \in log

-----------------------------------------------------------------------------
(* The reference comparison of version strings *)

DigitChars == <<"0", "1", "2", "3", "4", "5", "6", "7", "8", "9">>

RefDigit(c) == (CHOOSE d \in 1..10 : DigitChars[d] = c) - 1

RefIsDigit(c) == \E d \in 1..10 : DigitChars[d] = c

RECURSIVE RefValue(_, _)
RefValue(ds, acc) ==
    IF ds = <<>> THEN acc ELSE RefValue(Tail(ds), 10 * acc + RefDigit(Head(ds)))

\* The segments of s between its '.' and '-' characters.
RefSegments(s) ==
    LET P == {i \in 1..Len(s) : s[i] = "." \/ s[i] = "-"}
        n == Cardinality(P)
        pos(k) == IF k = 0 THEN 0
                  ELSE IF k = n + 1 THEN Len(s) + 1
                  ELSE CHOOSE p \in P : Cardinality({q \in P : q < p}) = k - 1
    IN  [k \in 1..(n + 1) |-> SubSeq(s, pos(k - 1) + 1, pos(k) - 1)]

\* A segment is an integer only when it is a non-empty run of digits;
\* every other segment counts as 0.
StrictInteger(x) ==
    IF x # <<>> /\ \A i \in DOMAIN x : RefIsDigit(x[i]) THEN RefValue(x, 0) ELSE 0

\* A segment counts as the value of its longest leading run of digits, and
\* as 0 when it does not start with a digit.
LeadingInteger(x) ==
    LET runs == {k \in 0..Len(x) : \A i \in 1..k : RefIsDigit(x[i])}
        n == CHOOSE k \in runs : \A j \in runs : j <= k
    IN  RefValue(SubSeq(x, 1, n), 0)

\* The integer a segment counts as, under the strict or the leading-digits
\* reading.
RefInteger(x, strict) == IF strict THEN StrictInteger(x) ELSE LeadingInteger(x)

\* Pad with trailing zeros, return -1 or +1 at the first difference, else 0.
RefCompare(a, b, strict) ==
    LET sa == RefSegments(a)
        sb == RefSegments(b)
        n == IF Len(sa) >= Len(sb) THEN Len(sa) ELSE Len(sb)
        pa == [i \in 1..n |-> IF i <= Len(sa) THEN RefInteger(sa[i], strict) ELSE 0]
        pb == [i \in 1..n |-> IF i <= Len(sb) THEN RefInteger(sb[i], strict) ELSE 0]
        diff == {i \in 1..n : pa[i] # pb[i]}
    IN  IF diff = {} THEN 0
        ELSE LET k == CHOOSE i \in diff : \A j \in diff : i <= j
             IN  IF pa[k] < pb[k] THEN -1 ELSE 1

-----------------------------------------------------------------------------
(* Properties *)

\* C1: a check that names an application with no record answers 404 and
\* leaves totalChecks, checksToday and the per-version counts as they were.
C1_NotFoundLeavesStats ==
    [][(CheckStep /\ QueryApp(lastOp'.query) \notin DOMAIN appVersions)
          => /\ response'.status = 404
             /\ updateStats'.totalChecks = updateStats.totalChecks
             /\ updateStats'.checksToday = updateStats.checksToday
             /\ updateStats'.clientVersions = updateStats.clientVersions]_vars

\* C2: a check for a known application without client version answers 400,
\* adds 1 to totalChecks, adds 1 to checksToday after the daily reset if one
\* is due, and leaves the per-version counts as they were.
C2_MissingVersionCounted ==
    [][(/\ CheckStep
        /\ QueryApp(lastOp'.query) \in DOMAIN appVersions
        /\ lastOp'.query.version \in {Undefined, <<>>})
          => /\ response'.status = 400
             /\ updateStats'.totalChecks = updateStats.totalChecks + 1
             /\ updateStats'.checksToday =
                   (IF updateStats.lastReset # toDateString(now)
                    THEN 0 ELSE updateStats.checksToday) + 1
             /\ updateStats'.clientVersions = updateStats.clientVersions]_vars

C2_Witness ==
    /\ lastOp.op = "check"
    /\ response.status = 400
    /\ ResetLogged
    /\ updateStats.totalChecks >= 2
    /\ updateStats.checksToday = 1
    /\ updateStats.clientVersions # <<>>

\* C3: in every decision, updateAvailable is true exactly when the client
\* version compares below the record's latestVersion; a client version equal
\* to or ahead of latestVersion gets updateAvailable = false.
C3_UpdateAvailableIffBehind ==
    Decided =>
        LET c == compareVersions(lastOp.query.version, DecidedRecord.latestVersion)
        IN  /\ response.updateAvailable <=> (c < 0)
            /\ (c >= 0) => ~response.updateAvailable

C3_Witness ==
    /\ Decided
    /\ compareVersions(lastOp.query.version, DecidedRecord.latestVersion) > 0
    /\ ~response.updateAvailable

\* C4: in every decision, critical is true exactly when the record's
\* critical flag is set and the client version compares below the record's
\* minimumVersion; with the flag unset, critical is false.
C4_CriticalIffFlaggedAndBelowMinimum ==
    Decided =>
        /\ response.critical <=>
              (/\ DecidedRecord.critical
               /\ compareVersions(lastOp.query.version,
                                  DecidedRecord.minimumVersion) < 0)
        /\ ~DecidedRecord.critical => ~response.critical

C4_Witness ==
    /\ Decided
    /\ response.critical
    /\ DecidedRecord.critical
    /\ compareVersions(lastOp.query.version, DecidedRecord.minimumVersion) < 0

\* C5: in every decision, downloadUrl, releaseNotes and changelog are the
\* record's values when updateAvailable is true and null when it is false;
\* latestVersion and minimumVersion are the record's values in both cases.
C5_ArtifactsOnlyWhenAvailable ==
    Decided =>
        /\ response.updateAvailable =>
              /\ response.downloadUrl = prop(DecidedRecord, "downloadUrl")
              /\ response.releaseNotes = prop(DecidedRecord, "releaseNotes")
              /\ response.changelog = prop(DecidedRecord, "changelog")
        /\ ~response.updateAvailable =>
              /\ response.downloadUrl = Null
              /\ response.releaseNotes = Null
              /\ response.changelog = Null
        /\ response.latestVersion = DecidedRecord.latestVersion
        /\ response.minimumVersion = DecidedRecord.minimumVersion

C5_Witness ==
    /\ Decided
    /\ ~response.updateAvailable
    /\ response.downloadUrl = Null
    /\ prop(DecidedRecord, "downloadUrl") # Null
    /\ response.latestVersion = DecidedRecord.latestVersion

\* C6 as stated: compareVersions returns the reference comparison in which
\* every segment that is not an integer (empty or non-numeric) counts as 0.
C6_StrictReference ==
    cmpResult # Pending => cmpResult = {RefCompare(cmpA, cmpB, TRUE)}

\* C6 as amended: compareVersions returns the reference comparison in which
\* a segment counts as the value of its leading digits (so '1b' counts as 1)
\* and as 0 only when it does not start with a digit; '1.2' equals '1.2.0',
\* '1.10.0' is above '1.9.0' and '1.0.0-beta' equals '1.0.0'.
C6_LeadingDigitsReference ==
    cmpResult # Pending =>
        /\ cmpResult = {RefCompare(cmpA, cmpB, FALSE)}
        /\ (cmpA = V12 /\ cmpB = V120) => cmpResult = {0}
        /\ (cmpA = V1100 /\ cmpB = V190) => cmpResult = {1}
        /\ (cmpA = V200 /\ cmpB = V199) => cmpResult = {1}
        /\ (cmpA = V100beta /\ cmpB = V100) => cmpResult = {0}

C6_Witness ==
    /\ cmpA = <<"1", "b">>
    /\ cmpB = <<"1">>
    /\ cmpResult = {0}

\* C7: compareVersions is reflexive and antisymmetric: compare(a, a) = 0 and
\* compare(a, b) = -compare(b, a).
C7_ReflexiveAntisymmetric ==
    cmpResult # Pending =>
        /\ compareVersions(cmpA, cmpA) = 0
        /\ cmpResult = {-compareVersions(cmpB, cmpA)}

C7_Witness ==
    /\ cmpResult = {1}
    /\ compareVersions(cmpB, cmpA) = -1
    /\ Len(cmpA) < Len(cmpB)

\* C8: with check requests in flight at once and handled in any order,
\* across date changes, every received request is either still in flight or
\* counted once in totalChecks, the daily reset is taken at most once per
\* date change, and no check of a day without reset is missing from
\* checksToday.
C8_NoLostUpdate ==
    /\ updateStats.totalChecks + Len(inflight) = received
    /\ resets <= updateStats.lastReset - toDateString(0)
    /\ updateStats.lastReset <= toDateString(now)
    /\ updateStats.checksToday <= updateStats.totalChecks
    /\ resets = 0 => updateStats.checksToday = updateStats.totalChecks

C8_Witness ==
    /\ received = 3
    /\ inflight = <<>>
    /\ updateStats.totalChecks = 3
    /\ resets = 1
    /\ updateStats.checksToday = 2

\* C9: when resetDailyStats runs on a date other than lastReset it sets
\* checksToday to 0 and lastReset to the date, and leaves totalChecks and
\* the per-version counts as they were (in the stats handler, which does
\* nothing else to the statistics); in the check handler the increment that
\* follows leaves checksToday at 1.
C9_ResetFrame ==
    [][(updateStats.lastReset # toDateString(now))
          => /\ StatsStep =>
                   /\ updateStats'.checksToday = 0
                   /\ updateStats'.lastReset = toDateString(now)
                   /\ updateStats'.totalChecks = updateStats.totalChecks
                   /\ updateStats'.clientVersions = updateStats.clientVersions
             /\ CheckStep =>
                   /\ updateStats'.checksToday = 1
                   /\ updateStats'.lastReset = toDateString(now)
                   /\ updateStats'.totalChecks = updateStats.totalChecks + 1]_vars

C9_Witness ==
    /\ lastOp.op = "stats"
    /\ lastOp.authorized
    /\ ResetLogged
    /\ updateStats.checksToday = 0
    /\ updateStats.lastReset = toDateString(now)
    /\ updateStats.totalChecks >= 2
    /\ updateStats.clientVersions # <<>>

\* C10: totalChecks is the number of check requests the handler has run
\* for: it grows by 1 with each of them and no other operation (daily reset,
\* stats read, publish, webhook, version lookup) changes it.
C10_TotalChecksCountsChecks ==
    updateStats.totalChecks = checksHandled

C10_Witness ==
    /\ updateStats.totalChecks >= 2
    /\ resets >= 1
    /\ mutations >= 1
    /\ lastOp.op = "version"

-----------------------------------------------------------------------------
\* C11: resetDailyStats is idempotent within one day: once it has run on a
\* date, a further call on the same date changes no field of the statistics,
\* whatever was counted in between.
C11_ResetIdempotentWithinDay ==
    toDateString(now) \in ranOn => resetDailyStats(updateStats, now) = updateStats

\* A stats read that called resetDailyStats again on a date on which it had
\* already reset the daily counter and a check had been counted since.
C11_Witness ==
    /\ lastOp.op = "stats"
    /\ lastOp.authorized
    /\ ~ResetLogged
    /\ resets >= 1
    /\ toDateString(now) \in ranOn
    /\ updateStats.lastReset = toDateString(now)
    /\ updateStats.checksToday >= 1
    /\ response.checksToday = updateStats.checksToday

-----------------------------------------------------------------------------
\* C12: the version distribution of a stats snapshot lists every version
\* string reported in a check exactly once, with the number of checks that
\* reported it as its count, and the counts never increase along the list.
C12_DistributionCountsReports ==
    (lastOp.op = "stats" /\ response.status = 200) =>
        LET dist == response.versionDistribution
        IN  /\ \A v \in DOMAIN reported :
                  Cardinality({i \in DOMAIN dist : dist[i].version = v}) = 1
            /\ \A i \in DOMAIN dist :
                  /\ dist[i].version \in DOMAIN reported
                  /\ dist[i].count = reported[dist[i].version]
            /\ \A i \in DOMAIN dist :
                  i < Len(dist) => dist[i].count >= dist[i + 1].count

\* A snapshot of two versions in which the version reported first was
\* reported once and the version reported second twice, so the sort had to
\* exchange them.
C12_Witness ==
    /\ lastOp.op = "stats"
    /\ response.status = 200
    /\ Len(response.versionDistribution) = 2
    /\ response.versionDistribution[1].count = 2
    /\ response.versionDistribution[2].count = 1
    /\ updateStats.clientVersions[1].value = 1
    /\ updateStats.clientVersions[1].key = response.versionDistribution[2].version

-----------------------------------------------------------------------------
\* A record whose two versions are strings.
VersionsDefined(rec) ==
    /\ prop(rec, "latestVersion") \notin {Undefined, Null}
    /\ prop(rec, "minimumVersion") \notin {Undefined, Null}

\* C13: in every reachable state of the store, after any sequence of publish
\* and webhook requests, every record's minimumVersion compares lower than
\* or equal to its latestVersion under compareVersions.
C13_MinimumNotAboveLatest ==
    \A app \in DOMAIN appVersions :
        VersionsDefined(appVersions[app]) =>
            compareVersions(appVersions[app].minimumVersion,
                            appVersions[app].latestVersion) <= 0

-----------------------------------------------------------------------------
\* The six attributes of a request: address, user-agent, accept-language,
\* accept-encoding, first forwarded-for entry and platform hint.
SixAttributes(req) ==
    <<req.ip,
      req.headers["user-agent"],
      req.headers["accept-language"],
      req.headers["accept-encoding"],
      IF req.headers["x-forwarded-for"] = Undefined THEN Undefined
      ELSE <<Head(req.headers["x-forwarded-for"])>>,
      req.headers["sec-ch-ua-platform"]>>

\* C14: the fingerprint is a function of the six attributes only: two
\* requests that agree on them get the same identifier, whatever else
\* differs (method, URL, other headers, the request handled before), and
\* computing it leaves the request as received and writes the identifier to
\* the request and the response locals alone.
C14_FingerprintOfSixAttributes ==
    /\ \A i, j \in DOMAIN fingerprinted :
          SixAttributes(fingerprinted[i].req) = SixAttributes(fingerprinted[j].req)
              => fingerprinted[i].uniqueId = fingerprinted[j].uniqueId
    /\ \A i \in DOMAIN fingerprinted :
          /\ fingerprinted[i].req \in FingerprintRequests
          /\ fingerprinted[i].locals.uniqueId = fingerprinted[i].uniqueId

\* Two requests with the same six attributes and the same identifier that
\* differ in method, URL and the rest of the forwarded-for header.
C14_Witness ==
    /\ Len(fingerprinted) = 2
    /\ SixAttributes(fingerprinted[1].req) = SixAttributes(fingerprinted[2].req)
    /\ fingerprinted[1].req.method # fingerprinted[2].req.method
    /\ fingerprinted[1].req.url # fingerprinted[2].req.url
    /\ fingerprinted[1].req.headers["x-forwarded-for"]
          # fingerprinted[2].req.headers["x-forwarded-for"]
    /\ fingerprinted[1].uniqueId = fingerprinted[2].uniqueId

\* The number of the six attributes in which two requests differ.
AttributesDiffering(reqA, reqB) ==
    Cardinality({k \in 1..6 : SixAttributes(reqA)[k] # SixAttributes(reqB)[k]})

\* C15: two requests whose attribute tuples differ in exactly one attribute,
\* a missing attribute and an empty one counting as different, get different
\* fingerprints (the digest being free of collisions).
C15_OneAttributeChangesFingerprint ==
    \A i, j \in DOMAIN fingerprinted :
        AttributesDiffering(fingerprinted[i].req, fingerprinted[j].req) = 1
            => fingerprinted[i].uniqueId # fingerprinted[j].uniqueId

-----------------------------------------------------------------------------
\* The last handler was the check handler, for an application the store
\* knows and with a client version present.
CheckOfKnownAppWithVersion ==
    /\ lastOp.op = "check"
    /\ QueryApp(lastOp.query) \in DOMAIN appVersions
    /\ truthy(lastOp.query.version)

\* C16: after any sequence of authorized publish and webhook requests every
\* record has a defined latestVersion and a defined minimumVersion, and a
\* check for a known application with a client version present is answered
\* with a decision, never with a failure inside compareVersions.
C16_VersionsDefinedAndDecided ==
    /\ \A app \in DOMAIN appVersions : VersionsDefined(appVersions[app])
    /\ CheckOfKnownAppWithVersion => response.status = 200

-----------------------------------------------------------------------------
-----------------------------------------------------------------------------
\* C18: once a check or a stats read has been handled on the current date,
\* lastReset is the current date string and checksToday is the number of
\* checks handled since the date last changed (the clock only moves
\* forward); a stats read reports these values, and when it is the first
\* handler on a new day it reports checksToday = 0.
C18_DailyCounterTracksDay ==
    /\ toDateString(now) \in ranOn =>
          /\ updateStats.lastReset = toDateString(now)
          /\ updateStats.checksToday = sinceDateChange
    /\ (lastOp.op = "stats" /\ response.status = 200 /\ toDateString(now) \in ranOn) =>
          /\ response.lastReset = toDateString(now)
          /\ response.checksToday = sinceDateChange
    /\ (lastOp.op = "stats" /\ response.status = 200 /\ ResetLogged) =>
          response.checksToday = 0

\* A stats read on a new day, after checks on the day before and none yet
\* on the new day.
C18_Witness ==
    /\ lastOp.op = "stats"
    /\ response.status = 200
    /\ ResetLogged
    /\ updateStats.totalChecks >= 2
    /\ sinceDateChange = 0
    /\ response.checksToday = 0
    /\ response.lastReset = toDateString(now)
    /\ toDateString(now) # toDateString(0)

-----------------------------------------------------------------------------
\* The application a webhook request names, with the default of line 285.
WebhookApp(body) ==
    IF truthy(body.repository) THEN body.repository[1] ELSE "myapp"

-----------------------------------------------------------------------------
\* C20: for every record whose minimumVersion compares lower than or equal
\* to its latestVersion, a decision with critical = true also has
\* updateAvailable = true and carries a downloadUrl.
C20_CriticalImpliesUpdateAndUrl ==
    (/\ Decided
     /\ VersionsDefined(DecidedRecord)
     /\ compareVersions(DecidedRecord.minimumVersion,
                        DecidedRecord.latestVersion) <= 0
     /\ response.critical)
        => /\ response.updateAvailable
           /\ response.downloadUrl \notin {Undefined, Null}

-----------------------------------------------------------------------------
\* The sum of the counts of a Map from versions to counts.
RECURSIVE SumOfCounts(_)
SumOfCounts(m) ==
    IF m = <<>> THEN 0 ELSE Head(m).value + SumOfCounts(Tail(m))

\* C21: in every reachable state of the statistics, over any sequence of
\* checks, date changes and stats reads, 0 <= checksToday <= totalChecks and
\* the counts of versionCounts add up to at most totalChecks.
C21_CountersOrdered ==
    /\ 0 <= updateStats.checksToday
    /\ updateStats.checksToday <= updateStats.totalChecks
    /\ SumOfCounts(updateStats.clientVersions) <= updateStats.totalChecks

\* A stats read after a daily reset: checks counted before the date changed
\* and one after it, one of them without a version, so that both
\* inequalities are strict.
C21_Witness ==
    /\ lastOp.op = "stats"
    /\ response.status = 200
    /\ resets >= 1
    /\ updateStats.totalChecks = 3
    /\ updateStats.checksToday = 1
    /\ SumOfCounts(updateStats.clientVersions) = 2
    /\ Len(updateStats.clientVersions) = 2

====
